---- MODULE Spec2Model ----
(***************************************************************************)
(* Model of src/index.ts of mise-action: the run() pipeline that writes    *)
(* the configuration files, restores the cache, installs mise, sets the    *)
(* pre-install environment, checks the version, installs the toolchains    *)
(* and exports the environment that `mise env --json` reports.             *)
(*                                                                         *)
(* Strings that the code takes apart (PATH values) are sequences of        *)
(* one-character strings; every other string is an opaque TLA+ string.     *)
(***************************************************************************)
EXTENDS Naturals, Sequences, FiniteSets, TLC

VARIABLES
    inputs,     \* core.getInput / core.getBooleanInput values of this run
    host,       \* process.platform, os.arch()
    pc,         \* position of run() in its pipeline
    files,      \* the matched configuration files of the workspace
    env,        \* process.env, all names but PATH
    PATH,       \* process.env.PATH, a string
    pathFile,   \* the entries core.addPath issued to the runner, one per call
    output,     \* core.setOutput values
    state,      \* core.saveState values
    failed,     \* the messages core.setFailed recorded, in order
    err,        \* the exception in flight or caught, NoError when none
    executed,   \* the stage functions run() has entered, in order
    cacheKey,   \* what cache.restoreCache returned
    lastExec,   \* the ExecOutput of the latest mise subprocess
    runs,       \* key derivation: the inputs of two separate runs
    keys        \* key derivation: the primary key each of them derived

vars == <<inputs, host, pc, files, env, PATH, pathFile, output, state, failed,
          err, executed, cacheKey, lastExec, runs, keys>>

-----------------------------------------------------------------------------
(* Bounds and value sets *)

\* the longest PATH value of an environment dump, in segments
MaxSegs == 2


Delim == ":"

\* the path segments an environment dump may name
Segs == { <<"a">>, <<"b">>, <<"a", "b">> }

Platforms == {"darwin", "linux"}
Archs == {"x64", "arm64"}
Prefixes == {"", "pfx"}
Bodies == {"", "body"}

\* the glob patterns of restoreMiseCache match these files, in this order
ConfigFiles == <<".mise.toml", ".tool-versions">>

PreInstallVars == {"MISE_TRUSTED_CONFIG_PATHS", "MISE_YES", "MISE_EXPERIMENTAL"}

\* partial functions: process.env, the saved state, the outputs, the files
Partial(D, R) == UNION { [S -> R] : S \in SUBSET D }
Put(f, k, v) == [x \in DOMAIN f \cup {k} |-> IF x = k THEN v ELSE f[x]]

\* process.cwd()
cwd == "/work"

\* miseDir() of ./utils: the data directory of mise
miseDir == "~/.local/share/mise"

\* path.join(miseDir(), 'bin'), as a PATH entry
miseBinDir == <<"m">>

-----------------------------------------------------------------------------
(* Strings *)

RECURSIVE SplitFrom(_, _, _)
SplitFrom(s, cur, acc) ==
    IF s = <<>> THEN Append(acc, cur)
    ELSE IF Head(s) = Delim
         THEN SplitFrom(Tail(s), <<>>, Append(acc, cur))
         ELSE SplitFrom(Tail(s), Append(cur, Head(s)), acc)

\* value.split(path.delimiter)
Split(s) == SplitFrom(s, <<>>, <<>>)

RECURSIVE Join(_)
Join(segs) ==
    IF Len(segs) = 0 THEN <<>>
    ELSE IF Len(segs) = 1 THEN segs[1]
    ELSE segs[1] \o <<Delim>> \o Join(Tail(segs))

\* core.addPath(inputPath) of @actions/core: the entry is issued to the runner
\* and process.env.PATH becomes `${inputPath}${path.delimiter}${process.env.PATH}`
addPath(inputPath, p) ==
    [PATH |-> inputPath \o <<Delim>> \o p.PATH, file |-> Append(p.file, inputPath)]

\* the entries of a PATH string
RECURSIVE SeqToSet(_)
SeqToSet(q) == IF q = <<>> THEN {} ELSE {Head(q)} \cup SeqToSet(Tail(q))
Entries(p) == SeqToSet(Split(p))

-----------------------------------------------------------------------------
(* Errors, subprocess results, the environment dump *)

NoError == [isError |-> FALSE, stage |-> "", message |-> <<>>]
Error(stage, message) == [isError |-> TRUE, stage |-> stage, message |-> message]

NotJson == [ok |-> FALSE, entries |-> <<>>]
NoExec == [args |-> "", exitCode |-> 0, stdout |-> NotJson, stderr |-> ""]
Json(entries) == [ok |-> TRUE, entries |-> entries]

Foo == <<"FOO", "bar">>
PathEntry(v) == <<"PATH", v>>

SegSeqs == UNION { [1..n -> Segs] : n \in 1..MaxSegs }
PathValues == { Join(q) : q \in SegSeqs }

\* the objects `mise env --json` may print, as Object.entries lists them
DumpEntries ==
    { <<>>, <<Foo>> }
    \cup { <<PathEntry(v)>> : v \in PathValues }
    \cup { <<Foo, PathEntry(v)>> : v \in PathValues }

Stderrs == {"", "boom"}

\* the results of a mise subprocess that exits 0
PlainOutputs == { [exitCode |-> 0, stdout |-> NotJson, stderr |-> e] : e \in {""} }
\* the results of a mise subprocess that exits non-zero; it may have printed
\* a dump before it failed
FailedOutputs ==
    { [exitCode |-> 1, stdout |-> o, stderr |-> e] :
        o \in {NotJson, Json(<<Foo, PathEntry(<<"a", Delim, "b">>)>>)}, e \in Stderrs }
EnvOutputs ==
    { [exitCode |-> 0, stdout |-> o, stderr |-> ""] :
        o \in {NotJson} \cup { Json(d) : d \in DumpEntries } }

-----------------------------------------------------------------------------
(* The libraries the pipeline calls *)

\* exec.getExecOutput('mise', args, {cwd}) of @actions/exec: the options set
\* no ignoreReturnCode, so a non-zero exit code rejects the promise with the
\* library's own message and the ExecOutput never reaches the caller
getExecOutput(out) ==
    IF out.exitCode # 0
    THEN [rejected |-> TRUE,
          message |-> <<"The process 'mise' failed with exit code ", "1">>]
    ELSE [rejected |-> FALSE, message |-> <<>>]

\* glob.hashFiles: a digest of the contents of the matched files, in the
\* order the glob yields them; the empty string when nothing matches
hashFiles(fs) ==
    LET present == SelectSeq(ConfigFiles, LAMBDA f : f \in DOMAIN fs)
    IN  [i \in 1..Len(present) |-> fs[present[i]]]

\* getOS()
getOS(platform) == IF platform = "darwin" THEN "macos" ELSE platform

\* a key that also depends on the save flag
primaryKeyMutant(r) ==
    LET prefix == IF r.cache_key_prefix # "" THEN r.cache_key_prefix ELSE "mise-v0"
    IN  <<prefix, getOS(r.platform), r.arch, hashFiles(r.files), r.cache_save>>

\* lines 75-76: `${prefix}-${getOS()}-${os.arch()}-${fileHash}`
primaryKey(r) ==
    LET prefix == IF r.cache_key_prefix # "" THEN r.cache_key_prefix ELSE "mise-v0"
    IN  <<prefix, getOS(r.platform), r.arch, hashFiles(r.files)>>

\* a miss reported as a hit
cacheHitMutant(key) == TRUE

\* Boolean(cacheKey); undefined is the empty tuple
cacheHit(key) == key # <<>>

\* !process.env[k]
isUnset(e, k) == k \notin DOMAIN e \/ e[k] = ""

\* setEnvIfUnset(k, v)
setEnvIfUnset(e, k, v) == IF isUnset(e, k) THEN Put(e, k, v) ELSE e

\* getExperimental()
getExperimental(experimentalString) == experimentalString = "true"

\* the whole PATH value added in one call, unsplit
addPathsMutant(segs, p) == IF segs = <<>> THEN p ELSE addPath(Join(segs), p)

\* the loop of lines 52-55: core.addPath on each element in turn
RECURSIVE addPaths(_, _)
addPaths(segs, p) ==
    IF segs = <<>> THEN p
    ELSE addPaths(Tail(segs), addPath(Head(segs), p))

\* the loop of lines 48-57 over Object.entries(envVars): setEnv for every key
\* but PATH, core.addPath on each element of a PATH value
RECURSIVE exportEnv(_, _, _)
exportEnv(entries, e, p) ==
    IF entries = <<>> THEN [env |-> e, paths |-> p]
    ELSE LET key == Head(entries)[1]
             value == Head(entries)[2]
         IN  IF key # "PATH"
             THEN exportEnv(Tail(entries), Put(e, key, value), p)
             ELSE exportEnv(Tail(entries), e, addPaths(Split(value), p))

-----------------------------------------------------------------------------
(* The pipeline of run() *)

Inputs ==
    [cache : BOOLEAN, cache_save : BOOLEAN, install : BOOLEAN,
     tool_versions : Bodies, mise_toml : Bodies,
     cache_key_prefix : Prefixes, experimental : {"true", "false"}]

Hosts == [platform : Platforms, arch : {"x64"}]

\* the caller's environment: each pre-install variable absent, empty or set
CallerEnvs == Partial(PreInstallVars, {"", "caller"})

NoRestore == [attempted |-> FALSE, returned |-> FALSE, key |-> <<>>]

PipelineInit ==
    /\ inputs \in Inputs
    /\ host \in Hosts
    /\ pc = "setToolVersions"
    /\ files = << >>
    /\ env \in CallerEnvs
    /\ PATH = <<"s">>
    /\ pathFile = <<>>
    /\ output = << >>
    /\ state = << >>
    /\ failed = <<>>
    /\ err = NoError
    /\ executed = <<>>
    /\ cacheKey = NoRestore
    /\ lastExec = NoExec

\* process.env.PATH and the entries issued so far
paths == [PATH |-> PATH, file |-> pathFile]

\* a stage function is entered
Enter(stage) == executed' = Append(executed, stage)

\* the stage throws: control passes to the catch clause of run()
Throw(stage, message) ==
    /\ pc' = "catch"
    /\ err' = Error(stage, message)

\* the stage returns: run() goes on to its next statement
Return(next) ==
    /\ pc' = next
    /\ err' = err

\* writeFile(p, body): fs.promises.writeFile either writes or rejects
writeFile(stage, p, body, next) ==
    \E ok \in BOOLEAN :
        IF ok
        THEN /\ files' = Put(files, p, body)
             /\ Return(next)
        ELSE /\ files' = files
             /\ Throw(stage, <<"EACCES: permission denied, open ", p>>)

setToolVersions ==
    /\ pc = "setToolVersions"
    /\ Enter("setToolVersions")
    /\ IF inputs.tool_versions # ""
       THEN writeFile("setToolVersions", ".tool-versions", inputs.tool_versions,
                      "setMiseToml")
       ELSE files' = files /\ Return("setMiseToml")
    /\ UNCHANGED <<inputs, host, env, PATH, pathFile, output, state, failed, cacheKey,
                   lastExec, runs, keys>>

setMiseToml ==
    /\ pc = "setMiseToml"
    /\ Enter("setMiseToml")
    /\ IF inputs.mise_toml # ""
       THEN writeFile("setMiseToml", ".mise.toml", inputs.mise_toml, "cache")
       ELSE files' = files /\ Return("cache")
    /\ UNCHANGED <<inputs, host, env, PATH, pathFile, output, state, failed, cacheKey,
                   lastExec, runs, keys>>

\* the run, as the key derivation reads it
thisRun ==
    [cache_key_prefix |-> inputs.cache_key_prefix, cache_save |-> inputs.cache_save,
     platform |-> host.platform, arch |-> host.arch, files |-> files]

\* what cache.restoreCache([cachePath], primaryKey) may do: throw, find
\* nothing, or return the key of the entry it restored
RestoreResults(key) == { <<>>, key, <<"restored">> }

restoreMiseCache ==
    /\ pc = "cache"
    /\ inputs.cache
    /\ Enter("restoreMiseCache")
    /\ LET key == primaryKey(thisRun)
           saved == Put(Put(Put(state, "CACHE", inputs.cache_save),
                            "PRIMARY_KEY", key), "MISE_DIR", miseDir)
       IN  \E threw \in BOOLEAN, found \in RestoreResults(key) :
             IF threw
             THEN /\ state' = saved
                  /\ cacheKey' = [attempted |-> TRUE, returned |-> FALSE, key |-> <<>>]
                  /\ output' = output
                  /\ Throw("restoreMiseCache", <<"Cache service responded with 500">>)
             ELSE /\ cacheKey' = [attempted |-> TRUE, returned |-> TRUE, key |-> found]
                  /\ output' = Put(output, "cache-hit", cacheHit(found))
                  /\ state' = IF ~cacheHit(found) THEN saved
                              ELSE Put(saved, "CACHE_KEY", found)
                  /\ Return("setupMise")
    /\ UNCHANGED <<inputs, host, files, env, PATH, pathFile, failed, lastExec, runs, keys>>

\* the else branch leaving the output unset
cacheDisabledMutant ==
    /\ pc = "cache"
    /\ ~inputs.cache
    /\ Return("setupMise")
    /\ UNCHANGED <<inputs, host, files, env, PATH, pathFile, output, state, failed,
                   executed, cacheKey, lastExec, runs, keys>>

\* the else branch of lines 15-19
cacheDisabled ==
    /\ pc = "cache"
    /\ ~inputs.cache
    /\ output' = Put(output, "cache-hit", FALSE)
    /\ Return("setupMise")
    /\ UNCHANGED <<inputs, host, files, env, PATH, pathFile, state, failed, executed,
                   cacheKey, lastExec, runs, keys>>

setupMise ==
    /\ pc = "setupMise"
    /\ Enter("setupMise")
    /\ \E outcome \in {"ok", "mkdir", "curl", "chmod"} :
         IF outcome = "ok"
         THEN /\ PATH' = addPath(miseBinDir, paths).PATH
              /\ pathFile' = addPath(miseBinDir, paths).file
              /\ Return("setEnvVarsPreInstall")
         ELSE /\ UNCHANGED <<PATH, pathFile>>
              /\ Throw("setupMise", <<outcome, " failed">>)
    /\ UNCHANGED <<inputs, host, files, env, output, state, failed, cacheKey,
                   lastExec, runs, keys>>

setEnvVarsPreInstall ==
    /\ pc = "setEnvVarsPreInstall"
    /\ Enter("setEnvVarsPreInstall")
    /\ env' = setEnvIfUnset(
                setEnvIfUnset(
                  setEnvIfUnset(env, "MISE_TRUSTED_CONFIG_PATHS", cwd),
                  "MISE_YES", "1"),
                "MISE_EXPERIMENTAL",
                IF getExperimental(inputs.experimental) THEN "1" ELSE "0")
    /\ Return("testMise")
    /\ UNCHANGED <<inputs, host, files, PATH, pathFile, output, state, failed, cacheKey,
                   lastExec, runs, keys>>

\* mise(args): the subprocess runs and getExecOutput settles
mise(stage, args, outs, next) ==
    \E out \in outs :
        /\ lastExec' = [args |-> args, exitCode |-> out.exitCode,
                        stdout |-> out.stdout, stderr |-> out.stderr]
        /\ IF getExecOutput(out).rejected
           THEN Throw(stage, getExecOutput(out).message)
           ELSE Return(next)

\* the toolchain install entered whatever the install input says
testMiseMutant ==
    /\ pc = "testMise"
    /\ Enter("testMise")
    /\ mise("testMise", "--version", PlainOutputs \cup FailedOutputs, "miseInstall")
    /\ UNCHANGED <<inputs, host, files, env, PATH, pathFile, output, state, failed,
                   cacheKey, runs, keys>>

testMise ==
    /\ pc = "testMise"
    /\ Enter("testMise")
    /\ mise("testMise", "--version", PlainOutputs \cup FailedOutputs,
            IF inputs.install THEN "miseInstall" ELSE "setEnvVars")
    /\ UNCHANGED <<inputs, host, files, env, PATH, pathFile, output, state, failed,
                   cacheKey, runs, keys>>

miseInstall ==
    /\ pc = "miseInstall"
    /\ Enter("miseInstall")
    /\ mise("miseInstall", "install", PlainOutputs \cup FailedOutputs, "setEnvVars")
    /\ UNCHANGED <<inputs, host, files, env, PATH, pathFile, output, state, failed,
                   cacheKey, runs, keys>>

\* the dump applied whatever the exit code of the subprocess
setEnvVarsMutant ==
    /\ pc = "setEnvVars"
    /\ Enter("setEnvVars")
    /\ \E out \in EnvOutputs \cup FailedOutputs :
         /\ lastExec' = [args |-> "env --json", exitCode |-> out.exitCode,
                         stdout |-> out.stdout, stderr |-> out.stderr]
         /\ IF out.stdout.ok
            THEN /\ env' = exportEnv(out.stdout.entries, env, paths).env
                 /\ PATH' = exportEnv(out.stdout.entries, env, paths).paths.PATH
                 /\ pathFile' = exportEnv(out.stdout.entries, env, paths).paths.file
                 /\ IF out.exitCode = 0
                    THEN Return("done")
                    ELSE Throw("setEnvVars", <<"Failed to run mise env: ", out.stderr>>)
            ELSE /\ Throw("setEnvVars", <<"Unexpected end of JSON input">>)
                 /\ UNCHANGED <<env, PATH, pathFile>>
    /\ UNCHANGED <<inputs, host, files, output, state, failed, cacheKey, runs, keys>>

setEnvVars ==
    /\ pc = "setEnvVars"
    /\ Enter("setEnvVars")
    /\ \E out \in EnvOutputs \cup FailedOutputs :
         /\ lastExec' = [args |-> "env --json", exitCode |-> out.exitCode,
                         stdout |-> out.stdout, stderr |-> out.stderr]
         /\ IF getExecOutput(out).rejected
            THEN /\ Throw("setEnvVars", getExecOutput(out).message)
                 /\ UNCHANGED <<env, PATH, pathFile>>
            ELSE IF out.exitCode = 0
            THEN IF out.stdout.ok
                 THEN /\ env' = exportEnv(out.stdout.entries, env, paths).env
                      /\ PATH' = exportEnv(out.stdout.entries, env, paths).paths.PATH
                      /\ pathFile' = exportEnv(out.stdout.entries, env, paths).paths.file
                      /\ Return("done")
                 ELSE /\ Throw("setEnvVars", <<"Unexpected end of JSON input">>)
                      /\ UNCHANGED <<env, PATH, pathFile>>
            ELSE /\ Throw("setEnvVars", <<"Failed to run mise env: ", out.stderr>>)
                 /\ UNCHANGED <<env, PATH, pathFile>>
    /\ UNCHANGED <<inputs, host, files, output, state, failed, cacheKey, runs, keys>>

\* a catch clause that swallows the error
catchMutant ==
    /\ pc = "catch"
    /\ failed' = failed
    /\ pc' = "done"
    /\ UNCHANGED <<inputs, host, files, env, PATH, pathFile, output, state, err,
                   executed, cacheKey, lastExec, runs, keys>>

\* the catch clause of run(): lines 29-32
catch ==
    /\ pc = "catch"
    /\ IF err.isError
       THEN /\ failed' = Append(failed, err.message)
            /\ pc' = "done"
       ELSE /\ failed' = failed
            /\ pc' = "crashed"
    /\ UNCHANGED <<inputs, host, files, env, PATH, pathFile, output, state, err, executed,
                   cacheKey, lastExec, runs, keys>>

Next ==
    \/ setToolVersions
    \/ setMiseToml
    \/ restoreMiseCache
    \/ cacheDisabled
    \/ setupMise
    \/ setEnvVarsPreInstall
    \/ testMise
    \/ miseInstall
    \/ setEnvVars
    \/ catch

Init ==
    /\ PipelineInit
    /\ runs = << >>
    /\ keys = << >>

Spec == Init /\ [][Next]_vars

-----------------------------------------------------------------------------
(* Key derivation, run by run: what lines 65-76 of restoreMiseCache read     *)
(* (the cache_key_prefix and cache_save inputs, the platform, the            *)
(* architecture, the matched files) and the primary key they derive.         *)

RunIds == {"first", "second"}

Runs ==
    [cache_key_prefix : Prefixes, cache_save : BOOLEAN,
     platform : Platforms \cup {"win32"}, arch : Archs,
     files : Partial({".mise.toml", ".tool-versions"}, {"x", "y"})]

KeyInit ==
    /\ runs \in [RunIds -> Runs]
    /\ keys = << >>
    /\ inputs = [cache |-> TRUE, cache_save |-> TRUE, install |-> TRUE,
                 tool_versions |-> "", mise_toml |-> "",
                 cache_key_prefix |-> "", experimental |-> "false"]
    /\ host = [platform |-> "linux", arch |-> "x64"]
    /\ pc = "setToolVersions"
    /\ files = << >>
    /\ env = << >>
    /\ PATH = <<"s">>
    /\ pathFile = <<>>
    /\ output = << >>
    /\ state = << >>
    /\ failed = <<>>
    /\ err = NoError
    /\ executed = <<>>
    /\ cacheKey = NoRestore
    /\ lastExec = NoExec

\* run i derives its primary key
deriveKey(i) ==
    /\ i \notin DOMAIN keys
    /\ keys' = Put(keys, i, primaryKey(runs[i]))
    /\ UNCHANGED <<inputs, host, pc, files, env, PATH, pathFile, output, state,
                   failed, err, executed, cacheKey, lastExec, runs>>

KeyNext == \E i \in RunIds : deriveKey(i)

SpecKey == KeyInit /\ [][KeyNext]_vars

-----------------------------------------------------------------------------
(* Properties *)

IsPrefix(a, b) == Len(a) <= Len(b) /\ SubSeq(b, 1, Len(a)) = a
IsSuffix(a, b) == Len(a) <= Len(b) /\ SubSeq(b, Len(b) - Len(a) + 1, Len(b)) = a
Last(q) == q[Len(q)]

\* the position of the first entry equal to x, the one a lookup finds
FirstIdx(q, x) == CHOOSE i \in 1..Len(q) : q[i] = x /\ \A j \in 1..(i - 1) : q[j] # x

HasPathKey(stdout) == \E i \in 1..Len(stdout.entries) : stdout.entries[i][1] = "PATH"
PathValue(stdout) ==
    stdout.entries[CHOOSE i \in 1..Len(stdout.entries) : stdout.entries[i][1] = "PATH"][2]

Finished == pc \in {"done", "crashed"}

\* the export stage ran to its end on a dump that holds a PATH key
ExportedPath ==
    /\ pc = "setEnvVars"
    /\ pc' = "done"
    /\ HasPathKey(lastExec'.stdout)

\* the stages of a run that nothing stops, in the order of run()
ExpectedStages ==
    <<"setToolVersions", "setMiseToml">>
    \o (IF inputs.cache THEN <<"restoreMiseCache">> ELSE <<>>)
    \o <<"setupMise", "setEnvVarsPreInstall", "testMise">>
    \o (IF inputs.install THEN <<"miseInstall">> ELSE <<>>)
    \o <<"setEnvVars">>

\* C1: the stages entered so far are always an initial part of the fixed
\* order (config writes, cache restore when cache is true, install, pre-install
\* environment, version check, toolchain install when install is true,
\* export), so none runs out of order or twice; a run no stage stops has
\* entered exactly that list.
C1_StageOrder ==
    /\ IsPrefix(executed, ExpectedStages)
    /\ (pc = "done" /\ ~err.isError) => executed = ExpectedStages

C1_Witness ==
    /\ pc = "done"
    /\ ~err.isError
    /\ inputs.cache
    /\ ~inputs.install
    /\ executed = <<"setToolVersions", "setMiseToml", "restoreMiseCache", "setupMise",
                    "setEnvVarsPreInstall", "testMise", "setEnvVars">>

\* C2: once a stage has raised, the raising stage is the last one entered;
\* the finished run has recorded exactly one failure message, the raised
\* error's; a run in which no stage raised has recorded none.
C2_SingleFailure ==
    /\ err.isError => Last(executed) = err.stage
    /\ Len(failed) <= 1
    /\ Finished => IF err.isError THEN failed = <<err.message>> ELSE failed = <<>>

C2_Witness ==
    /\ pc = "done"
    /\ err.isError
    /\ err.stage = "testMise"
    /\ inputs.install
    /\ failed = <<err.message>>

\* C3, as stated: in a finished run whose cache input is false the cache-hit
\* output is false and no restore was attempted.
C3_Original ==
    (Finished /\ ~inputs.cache) =>
        /\ "cache-hit" \in DOMAIN output
        /\ output["cache-hit"] = FALSE
        /\ ~cacheKey.attempted

ConfigWriteRaised == err.isError /\ err.stage \in {"setToolVersions", "setMiseToml"}

\* C3, amended: when the cache input is false no restore is ever attempted,
\* and once the run is past the cache branch the cache-hit output is false;
\* a run that a failing config write stopped has left the output unset.
C3_CacheDisabled ==
    ~inputs.cache =>
        /\ ~cacheKey.attempted
        /\ \A i \in 1..Len(executed) : executed[i] # "restoreMiseCache"
        /\ "cache-hit" \in DOMAIN output => output["cache-hit"] = FALSE
        /\ (Finished /\ ~ConfigWriteRaised) => "cache-hit" \in DOMAIN output
        /\ (Finished /\ ConfigWriteRaised) => "cache-hit" \notin DOMAIN output

C3_Witness ==
    /\ pc = "done"
    /\ ~inputs.cache
    /\ "cache-hit" \in DOMAIN output
    /\ output["cache-hit"] = FALSE
    /\ Len(executed) > 2

\* C4: whenever the restore was attempted and returned, the saved state holds
\* PRIMARY_KEY (the derived key), MISE_DIR (the data directory) and CACHE (the
\* cache_save input); cache-hit is true exactly when a key came back; and
\* CACHE_KEY is saved exactly when a key came back, with that key as value.
C4_RestoreState ==
    cacheKey.returned =>
        /\ {"CACHE", "PRIMARY_KEY", "MISE_DIR"} \subseteq DOMAIN state
        /\ state["PRIMARY_KEY"] = primaryKey(thisRun)
        /\ state["MISE_DIR"] = miseDir
        /\ state["CACHE"] = inputs.cache_save
        /\ "cache-hit" \in DOMAIN output
        /\ output["cache-hit"] = (cacheKey.key # <<>>)
        /\ "CACHE_KEY" \in DOMAIN state <=> cacheKey.key # <<>>
        /\ "CACHE_KEY" \in DOMAIN state => state["CACHE_KEY"] = cacheKey.key

C4_Witness ==
    /\ cacheKey.returned
    /\ cacheKey.key = <<"restored">>
    /\ "CACHE_KEY" \in DOMAIN state
    /\ state["CACHE_KEY"] = <<"restored">>
    /\ output["cache-hit"] = TRUE
    /\ state["CACHE"] = FALSE

\* C5: when the `env --json` subprocess exits non-zero, the export stage
\* raises and leaves the environment, PATH and the issued PATH entries as they
\* were when the stage began.
C5_NoMutationOnFailure ==
    [][(pc = "setEnvVars" /\ lastExec'.exitCode # 0) =>
          /\ env' = env
          /\ PATH' = PATH
          /\ pathFile' = pathFile
          /\ pc' = "catch"
          /\ err'.isError]_vars

C5_Witness ==
    /\ pc = "done"
    /\ lastExec.args = "env --json"
    /\ lastExec.exitCode # 0
    /\ lastExec.stdout.ok
    /\ failed # <<>>
    /\ "FOO" \notin DOMAIN env

Includes(message, text) ==
    text = "" \/ \E i \in 1..Len(message) : message[i] = text

\* C6: when the `env --json` subprocess exits non-zero, the failure message
\* recorded for the run includes the standard error of that subprocess.
C6_StderrInMessage ==
    (pc = "done" /\ lastExec.args = "env --json" /\ lastExec.exitCode # 0) =>
        /\ Len(failed) = 1
        /\ Includes(failed[1], lastExec.stderr)

C8_PresentNeverOverwritten ==
    [][pc = "setEnvVarsPreInstall" =>
          \A k \in PreInstallVars : k \in DOMAIN env => env'[k] = env[k]]_vars

C10_SameOrder ==
    [][ExportedPath =>
          LET segs == Split(PathValue(lastExec'.stdout))
              new == Split(PATH')
          IN  \A x, y \in SeqToSet(segs) :
                  FirstIdx(segs, x) < FirstIdx(segs, y) =>
                      FirstIdx(new, x) < FirstIdx(new, y)]_vars

====
